---- MODULE Spec2Model ----
(***************************************************************************)
(* The invoice draft of frontend/src/App.js: the React state `invoice`,    *)
(* the handlers that edit it and createInvoice, which validates it and     *)
(* posts it to the invoice store.                                          *)
(*                                                                         *)
(* Representation.                                                         *)
(*  - A JavaScript string is a sequence of one-character strings, so that  *)
(*    String.prototype.trim and parseFloat are computed, not assumed.      *)
(*  - A nullable value is Null (<<>>) or Some(v) (<<v>>).                  *)
(*  - A customer object is a function from the property names it has to    *)
(*    their strings; a property it lacks is undefined.                     *)
(*  - A position of items is counted from 1: position i is the JavaScript  *)
(*    index i - 1, so 0 and Len(items) + 1 are the indexes next to the     *)
(*    array.  White space is the space character.                          *)
(*  - Numbers are integers.  gst_amount and total carry the division by    *)
(*    100 of calculateTotals, so the model holds both in hundredths:       *)
(*    gst_amount = 1800 stands for 18.00, total = 9440 for 94.40.          *)
(*    subtotal, discount, amount, quantity and rate are in units.          *)
(*  - Every UI event runs its handler to completion and React re-renders   *)
(*    before the next event, so a handler's closure `invoice` is the state *)
(*    at the time of the event.  Handlers are written over both the        *)
(*    closure (inv) and the updater's argument (prev), as in the source.   *)
(*    SpecBatched alone calls several handlers of one render: there the    *)
(*    closure is `rendered`, which differs from the state.                 *)
(*  - alert, reads, last, argIndex and thrown are what the last handler    *)
(*    showed, issued, was, was called with and threw: they let a state     *)
(*    tell which call produced it.                                         *)
(***************************************************************************)
EXTENDS Integers, Sequences, FiniteSets

VARIABLES
    invoice,    \* the draft: useState `invoice`
    loading,    \* useState `loading`
    pc,         \* createInvoice: "idle", or "awaiting" the post
    request,    \* the body of the post that is pending, or Null
    alert,      \* the alert the last handler showed, or NoAlert
    reads,      \* the GETs the last handler issued
    last,       \* the handler that ran last
    argIndex,   \* the index the last handler was called with, or Null
    thrown,     \* the error the last handler threw, or NoError
    rendered,   \* the draft of the last render: the handlers' closure `invoice`
    sequential, \* the draft that the handlers called since the last render
                \* give when each one reads the draft the one before left
    views,      \* useState `companyProfile`, `invoices`, `customers` and
                \* `summary`, by the endpoint each is read from
    fetching    \* the endpoints with a GET in flight

vars == <<invoice, loading, pc, request, alert, reads, last, argIndex, thrown,
          rendered, sequential, views, fetching>>

\* ------------------------------------------------------------------ bounds

\* Most line items the draft is grown to (addItem itself has no limit).
MaxItems == 2

\* ------------------------------------------------------- JavaScript values

Null == <<>>
Some(v) == <<v>>
Val(o) == o[1]

IsSpace(c) == c = " "

Digits == <<"0", "1", "2", "3", "4", "5", "6", "7", "8", "9">>

IsDigit(c) == \E d \in 1..10 : Digits[d] = c

DigitValue(c) == (CHOOSE d \in 1..10 : Digits[d] = c) - 1

RECURSIVE TrimStart(_)
TrimStart(s) ==
    IF s # <<>> /\ IsSpace(Head(s)) THEN TrimStart(Tail(s)) ELSE s

RECURSIVE TrimEnd(_)
TrimEnd(s) ==
    IF s # <<>> /\ IsSpace(s[Len(s)]) THEN TrimEnd(SubSeq(s, 1, Len(s) - 1)) ELSE s

\* String.prototype.trim
Trim(s) == TrimEnd(TrimStart(s))

\* a string in a boolean context: the empty string is falsy
Truthy(s) == s # <<>>

\* the longest prefix of s made of digits
RECURSIVE DigitPrefix(_)
DigitPrefix(s) ==
    IF s # <<>> /\ IsDigit(Head(s)) THEN <<Head(s)>> \o DigitPrefix(Tail(s)) ELSE <<>>

RECURSIVE DecimalValue(_)
DecimalValue(ds) ==
    IF ds = <<>> THEN 0
    ELSE 10 * DecimalValue(SubSeq(ds, 1, Len(ds) - 1)) + DigitValue(ds[Len(ds)])

\* parseFloat on strings without "." and exponent: leading white space is
\* skipped, then an optional sign and the longest run of digits are read;
\* no digit gives NaN.  The result is [nan |-> TRUE] or a number.
ParseFloat(s) ==
    LET t == TrimStart(s)
        signed == t # <<>> /\ Head(t) \in {"-", "+"}
        body == IF signed THEN Tail(t) ELSE t
        ds == DigitPrefix(body)
    IN  IF ds = <<>> THEN [nan |-> TRUE, val |-> 0]
        ELSE [nan |-> FALSE,
              val |-> IF signed /\ Head(t) = "-" THEN 0 - DecimalValue(ds)
                      ELSE DecimalValue(ds)]

\* mutant: a text that does not parse is read as -1, not as 0
ParseFloatOrMinusOne(s) ==
    LET p == ParseFloat(s) IN IF p.nan THEN 0 - 1 ELSE p.val

\* parseFloat(value) || 0 : NaN and 0 are falsy
ParseFloatOrZero(s) ==
    LET p == ParseFloat(s) IN IF p.nan \/ p.val = 0 THEN 0 ELSE p.val

\* ------------------------------------------------------------ the draft

BlankItem == [description |-> <<>>, quantity |-> 1, rate |-> 0, amount |-> 0]

\* the initial state of useState
InitialInvoice ==
    [payment_type |-> "Cash",
     customer |-> Null,
     items |-> <<BlankItem>>,
     subtotal |-> 0,
     discount |-> 0,
     gst_rate |-> 0,
     gst_amount |-> 0,
     total |-> 0,
     notes |-> <<>>,
     terms |-> <<>>,
     due_date |-> Null]

calculateItemAmount(quantity, rate) == quantity * rate

RECURSIVE SumAmounts(_)
SumAmounts(items) ==
    IF items = <<>> THEN 0
    ELSE SumAmounts(SubSeq(items, 1, Len(items) - 1)) + items[Len(items)].amount

\* mutant: the base of the tax is clamped at zero
calculateTotalsClamped(items, discount, gstRate) ==
    LET subtotal == SumAmounts(items)
        afterDiscount == IF subtotal - discount < 0 THEN 0 ELSE subtotal - discount
        gstAmount == afterDiscount * gstRate
        total == afterDiscount * 100 + gstAmount
    IN  [subtotal |-> subtotal, gstAmount |-> gstAmount, total |-> total]

\* gstAmount and total in hundredths (see Representation).  discount || 0
\* and gstRate || 0 leave a number as it is.
calculateTotals(items, discount, gstRate) ==
    LET subtotal == SumAmounts(items)
        discountAmount == discount
        afterDiscount == subtotal - discountAmount
        gstAmount == afterDiscount * gstRate
        total == afterDiscount * 100 + gstAmount
    IN  [subtotal |-> subtotal, gstAmount |-> gstAmount, total |-> total]

\* mutant: the amount is recomputed when the quantity changes only
ItemsWithFieldQuantityOnly(items, index, field, value) ==
    LET set == [items[index] EXCEPT ![field] = value]
        item == IF field = "quantity"
                THEN [set EXCEPT !.amount = set.quantity * set.rate]
                ELSE set
    IN  [items EXCEPT ![index] = item]

\* items with items[index][field] = value, and amount recomputed for
\* quantity and rate
ItemsWithField(items, index, field, value) ==
    LET set == [items[index] EXCEPT ![field] = value]
        item == IF field \in {"quantity", "rate"}
                THEN [set EXCEPT !.amount = calculateItemAmount(set.quantity, set.rate)]
                ELSE set
    IN  [items EXCEPT ![index] = item]

handleItemChange(inv, prev, index, field, value) ==
    LET newItems == ItemsWithField(inv.items, index, field, value)
        totals == calculateTotals(newItems, inv.discount, inv.gst_rate)
    IN  [prev EXCEPT !.items = newItems,
                     !.subtotal = totals.subtotal,
                     !.gst_amount = totals.gstAmount,
                     !.total = totals.total]

handleDiscountChange(inv, prev, value) ==
    LET discount == ParseFloatOrZero(value)
        totals == calculateTotals(inv.items, discount, inv.gst_rate)
    IN  [prev EXCEPT !.discount = discount,
                     !.subtotal = totals.subtotal,
                     !.gst_amount = totals.gstAmount,
                     !.total = totals.total]

\* mutant: a new tax rate drops the discount
handleGSTChangeDropsDiscount(inv, prev, value) ==
    LET gstRate == ParseFloatOrZero(value)
        totals == calculateTotals(inv.items, 0, gstRate)
    IN  [prev EXCEPT !.gst_rate = gstRate,
                     !.discount = 0,
                     !.gst_amount = totals.gstAmount,
                     !.total = totals.total]

handleGSTChange(inv, prev, value) ==
    LET gstRate == ParseFloatOrZero(value)
        totals == calculateTotals(inv.items, inv.discount, gstRate)
    IN  [prev EXCEPT !.gst_rate = gstRate,
                     !.gst_amount = totals.gstAmount,
                     !.total = totals.total]

\* mutant: the new row is put first
addItemPrepends(prev) == [prev EXCEPT !.items = <<BlankItem>> \o prev.items]

addItem(prev) == [prev EXCEPT !.items = Append(prev.items, BlankItem)]

\* mutant: the last row is removed, whatever the index
WithoutLast(items, index) ==
    IF index \in 1..Len(items) THEN SubSeq(items, 1, Len(items) - 1) ELSE items

\* items.filter((_, i) => i !== index): an index that is no position of
\* items removes nothing
WithoutIndex(items, index) ==
    IF index \in 1..Len(items)
    THEN [i \in 1..(Len(items) - 1) |-> IF i < index THEN items[i] ELSE items[i + 1]]
    ELSE items

\* mutant: the row is removed and the totals are left as they were
removeItemKeepsTotals(inv, prev, index) ==
    IF Len(inv.items) > 1
    THEN [prev EXCEPT !.items = WithoutIndex(inv.items, index)]
    ELSE prev

\* mutant: the last row can be removed too
removeItemUnguarded(inv, prev, index) ==
    LET newItems == WithoutIndex(inv.items, index)
    IN  [prev EXCEPT !.items = newItems,
                     !.subtotal = calculateTotals(newItems, inv.discount, inv.gst_rate).subtotal,
                     !.gst_amount = calculateTotals(newItems, inv.discount, inv.gst_rate).gstAmount,
                     !.total = calculateTotals(newItems, inv.discount, inv.gst_rate).total]

\* mutant: the only row is not removed but blanked
removeItemBlanksOnlyRow(inv, prev, index) ==
    IF Len(inv.items) > 1
    THEN LET newItems == WithoutIndex(inv.items, index)
             totals == calculateTotals(newItems, inv.discount, inv.gst_rate)
         IN  [prev EXCEPT !.items = newItems,
                          !.subtotal = totals.subtotal,
                          !.gst_amount = totals.gstAmount,
                          !.total = totals.total]
    ELSE [prev EXCEPT !.items = <<BlankItem>>]

removeItem(inv, prev, index) ==
    IF Len(inv.items) > 1
    THEN LET newItems == WithoutIndex(inv.items, index)
             totals == calculateTotals(newItems, inv.discount, inv.gst_rate)
         IN  [prev EXCEPT !.items = newItems,
                          !.subtotal = totals.subtotal,
                          !.gst_amount = totals.gstAmount,
                          !.total = totals.total]
    ELSE prev

\* mutant: the customer is cleared whatever the type
handlePaymentTypeChangeClears(prev, type) ==
    [prev EXCEPT !.payment_type = type, !.customer = <<>>]

\* mutant: switching to Cash drops the due date with the customer
handlePaymentTypeChangeDropsDueDate(prev, type) ==
    [prev EXCEPT !.payment_type = type,
                 !.customer = IF type = "Cash" THEN Null ELSE prev.customer,
                 !.due_date = IF type = "Cash" THEN Null ELSE prev.due_date]

handlePaymentTypeChange(prev, type) ==
    [prev EXCEPT !.payment_type = type,
                 !.customer = IF type = "Cash" THEN Null ELSE prev.customer]

\* mutant: the customer is replaced by a record of the one field
handleCustomerChangeReplaces(prev, field, value) ==
    [prev EXCEPT !.customer = Some([f \in {field} |-> value])]

\* { ...prev.customer, [field]: value } : spreading null adds nothing
handleCustomerChange(prev, field, value) ==
    LET old == IF prev.customer = Null THEN <<>> ELSE Val(prev.customer)
        new == [f \in (DOMAIN old) \cup {field} |-> IF f = field THEN value ELSE old[f]]
    IN  [prev EXCEPT !.customer = Some(new)]

\* ------------------------------------------------------------ createInvoice

NoAlert == "none"
AlertItem == "Please add at least one item with description"
AlertCustomer == "Please enter customer name for credit bills"
AlertCreated == "Invoice created successfully!"
AlertFailed == "Failed to create invoice. Please try again."

NoError == "none"
TypeError == "TypeError"

\* mutant: the description is not trimmed
SomeItemNotEmpty(inv) ==
    \E i \in 1..Len(inv.items) : inv.items[i].description # <<>>

\* invoice.items.some(item => item.description.trim())
SomeItemDescribed(inv) ==
    \E i \in 1..Len(inv.items) : Truthy(Trim(inv.items[i].description))

\* mutant: the name is not trimmed
CustomerNamedUntrimmed(inv) ==
    /\ inv.customer # <<>>
    /\ "name" \in DOMAIN inv.customer[1]
    /\ inv.customer[1].name # <<>>

\* invoice.customer?.name?.trim() : undefined when the customer is null or
\* has no name
CustomerNamed(inv) ==
    /\ inv.customer # Null
    /\ "name" \in DOMAIN Val(inv.customer)
    /\ Truthy(Trim(Val(inv.customer).name))

\* mutant: only the items are validated
ValidationAlertItemsOnly(inv) ==
    IF \E i \in 1..Len(inv.items) : TrimEnd(TrimStart(inv.items[i].description)) # <<>>
    THEN "none"
    ELSE "Please add at least one item with description"

\* mutant: the customer is validated before the items
ValidationAlertCustomerFirst(inv) ==
    IF inv.payment_type = "Credit" /\ ~CustomerNamed(inv) THEN AlertCustomer
    ELSE IF ~SomeItemDescribed(inv) THEN AlertItem
    ELSE NoAlert

\* the alert of the validation that makes createInvoice return, or NoAlert
ValidationAlert(inv) ==
    IF ~SomeItemDescribed(inv) THEN AlertItem
    ELSE IF inv.payment_type = "Credit" /\ ~CustomerNamed(inv) THEN AlertCustomer
    ELSE NoAlert

\* the draft that setInvoice is given after a successful post
ResetInvoice ==
    [payment_type |-> "Cash",
     customer |-> Null,
     items |-> <<[description |-> <<>>, quantity |-> 1, rate |-> 0, amount |-> 0]>>,
     subtotal |-> 0,
     discount |-> 0,
     gst_rate |-> 0,
     gst_amount |-> 0,
     total |-> 0,
     notes |-> <<>>,
     terms |-> <<>>,
     due_date |-> Null]

\* the initial value of a view's useState
InitialView == "initial"

\* useEffect on mount: the four fetches
ReadsOnMount == {"company-profile", "invoices", "customers", "reports/summary"}

\* mutant: only the invoice list is read again
ReadsAfterCreateInvoicesOnly == {"invoices"}

\* fetchInvoices, fetchCustomers, fetchSummary after a successful post
ReadsAfterCreate == {"invoices", "customers", "reports/summary"}

\* ------------------------------------------------------------ state

Init ==
    /\ invoice = InitialInvoice
    /\ loading = FALSE
    /\ pc = "idle"
    /\ request = Null
    /\ alert = NoAlert
    /\ reads = ReadsOnMount
    /\ last = "useEffect"
    /\ argIndex = Null
    /\ thrown = NoError
    /\ rendered = InitialInvoice
    /\ sequential = InitialInvoice
    /\ views = [e \in ReadsOnMount |-> InitialView]
    /\ fetching = ReadsOnMount

\* the handler calls the fetch functions of the endpoints: the GETs are in
\* flight when it returns
Fetch(endpoints) ==
    /\ fetching' = fetching \cup endpoints
    /\ UNCHANGED views

\* React renders the draft that the handler left
Rerender(new) ==
    /\ rendered' = new
    /\ sequential' = new

\* mutant: the body of the pending post is the draft itself, not a copy taken
\* when createInvoice was called
EditAtSharesPayload(handler, i, new) ==
    /\ invoice' = new
    /\ last' = handler
    /\ argIndex' = i
    /\ thrown' = NoError
    /\ alert' = NoAlert
    /\ reads' = {}
    /\ Rerender(new)
    /\ request' = IF request = Null THEN Null ELSE Some(new)
    /\ UNCHANGED <<loading, pc, views, fetching>>

\* a handler that only replaces the draft: no alert, no read, no error, and
\* createInvoice is left where it is
EditAt(handler, i, new) ==
    /\ invoice' = new
    /\ last' = handler
    /\ argIndex' = i
    /\ thrown' = NoError
    /\ alert' = NoAlert
    /\ reads' = {}
    /\ Rerender(new)
    /\ UNCHANGED <<loading, pc, request, views, fetching>>

\* the same handler when React has not rendered since the handler before:
\* its closure stays the snapshot, which only an assignment through the
\* shared item objects can change
Batched(handler, i, new, snapshot, inSequence) ==
    /\ invoice' = new
    /\ last' = handler
    /\ argIndex' = i
    /\ thrown' = NoError
    /\ alert' = NoAlert
    /\ reads' = {}
    /\ rendered' = snapshot
    /\ sequential' = inSequence
    /\ UNCHANGED <<loading, pc, request, views, fetching>>

Edit(handler, new) == EditAt(handler, Null, new)

\* a handler that throws before it calls setInvoice: the draft stays
Throw(handler, i, error) ==
    /\ last' = handler
    /\ argIndex' = i
    /\ thrown' = error
    /\ alert' = NoAlert
    /\ reads' = {}
    /\ UNCHANGED <<invoice, loading, pc, request, rendered, sequential,
                   views, fetching>>

\* newItems[index] is undefined: the assignment newItems[index][field] = value
\* throws a TypeError
ItemChangeThrows(items, i) == i \notin 1..Len(items)

\* mutant: an index that is no position is skipped without an error
HandleItemChangeSkipsInvalid(i, field, value) ==
    IF ItemChangeThrows(rendered.items, i)
    THEN Throw("handleItemChange", Some(i), NoError)
    ELSE EditAt("handleItemChange", Some(i),
                handleItemChange(rendered, invoice, i, field, value))

\* handleItemChange called with any index
HandleItemChange(i, field, value) ==
    IF ItemChangeThrows(rendered.items, i)
    THEN Throw("handleItemChange", Some(i), TypeError)
    ELSE EditAt("handleItemChange", Some(i),
                handleItemChange(rendered, invoice, i, field, value))

ChangeDescription(i, value) ==
    EditAt("handleItemChange", Some(i),
           handleItemChange(rendered, invoice, i, "description", value))

\* onChange of the quantity input: parseFloat(e.target.value) || 0
ChangeQuantity(i, text) ==
    EditAt("handleItemChange", Some(i),
           handleItemChange(rendered, invoice, i, "quantity", ParseFloatOrZero(text)))

\* onChange of the rate input: parseFloat(e.target.value) || 0
ChangeRate(i, text) ==
    EditAt("handleItemChange", Some(i),
           handleItemChange(rendered, invoice, i, "rate", ParseFloatOrZero(text)))

ChangeDiscount(text) ==
    Edit("handleDiscountChange", handleDiscountChange(rendered, invoice, text))

ChangeGST(text) ==
    Edit("handleGSTChange", handleGSTChange(rendered, invoice, text))

AddItem ==
    /\ Len(invoice.items) < MaxItems
    /\ Edit("addItem", addItem(invoice))

RemoveItem(i) ==
    EditAt("removeItem", Some(i), removeItem(rendered, invoice, i))

ChangePaymentType(type) ==
    Edit("handlePaymentTypeChange", handlePaymentTypeChange(invoice, type))

ChangeCustomer(field, value) ==
    Edit("handleCustomerChange", handleCustomerChange(invoice, field, value))

\* the inline updaters of the due date, notes and terms inputs
ChangeDueDate(value) ==
    Edit("setInvoice", [invoice EXCEPT !.due_date = Some(value)])

ChangeNotes(value) ==
    Edit("setInvoice", [invoice EXCEPT !.notes = value])

ChangeTerms(value) ==
    Edit("setInvoice", [invoice EXCEPT !.terms = value])

\* mutant: the validation alerts and does not return
CreateInvoiceWithoutReturn ==
    /\ pc = "idle"
    /\ last' = "createInvoice"
    /\ argIndex' = Null
    /\ thrown' = NoError
    /\ reads' = {}
    /\ Fetch({})
    /\ UNCHANGED invoice
    /\ Rerender(invoice)
    /\ alert' = ValidationAlert(invoice)
    /\ loading' = TRUE
    /\ pc' = "awaiting"
    /\ request' = <<invoice>>

\* createInvoice up to a return of the validation (finally clears loading)
\* or up to the await of the post
CreateInvoice ==
    /\ pc = "idle"
    /\ last' = "createInvoice"
    /\ argIndex' = Null
    /\ thrown' = NoError
    /\ reads' = {}
    /\ Fetch({})
    /\ UNCHANGED invoice
    /\ Rerender(invoice)
    /\ alert' = ValidationAlert(invoice)
    /\ IF ValidationAlert(invoice) # NoAlert
       THEN /\ loading' = FALSE
            /\ UNCHANGED <<pc, request>>
       ELSE /\ loading' = TRUE
            /\ pc' = "awaiting"
            /\ request' = Some(invoice)

\* mutant: the form is not reset
CreateSucceedsWithoutReset ==
    /\ pc = "awaiting"
    /\ last' = "createInvoice.then"
    /\ argIndex' = Null
    /\ thrown' = NoError
    /\ Rerender(invoice)
    /\ alert' = AlertCreated
    /\ reads' = ReadsAfterCreate
    /\ Fetch(ReadsAfterCreate)
    /\ loading' = FALSE
    /\ pc' = "idle"
    /\ request' = <<>>
    /\ UNCHANGED invoice

\* the post resolves and response.data is truthy
CreateSucceeds ==
    /\ pc = "awaiting"
    /\ last' = "createInvoice.then"
    /\ argIndex' = Null
    /\ thrown' = NoError
    /\ Rerender(ResetInvoice)
    /\ alert' = AlertCreated
    /\ invoice' = ResetInvoice
    /\ reads' = ReadsAfterCreate
    /\ Fetch(ReadsAfterCreate)
    /\ loading' = FALSE
    /\ pc' = "idle"
    /\ request' = Null

\* mutant: the form is reset whatever response.data is
CreateReturnsNothingResets ==
    /\ pc = "awaiting"
    /\ last' = "createInvoice.then"
    /\ argIndex' = Null
    /\ thrown' = NoError
    /\ Rerender(ResetInvoice)
    /\ alert' = NoAlert
    /\ reads' = {}
    /\ Fetch({})
    /\ loading' = FALSE
    /\ pc' = "idle"
    /\ request' = Null
    /\ invoice' = ResetInvoice

\* the post resolves and response.data is falsy
CreateReturnsNothing ==
    /\ pc = "awaiting"
    /\ last' = "createInvoice.then"
    /\ argIndex' = Null
    /\ thrown' = NoError
    /\ Rerender(invoice)
    /\ alert' = NoAlert
    /\ reads' = {}
    /\ Fetch({})
    /\ loading' = FALSE
    /\ pc' = "idle"
    /\ request' = Null
    /\ UNCHANGED invoice

\* mutant: the catch branch resets the form like the success branch
CreateFailsWithReset ==
    /\ pc = "awaiting"
    /\ last' = "createInvoice.catch"
    /\ argIndex' = Null
    /\ thrown' = NoError
    /\ Rerender(ResetInvoice)
    /\ alert' = AlertFailed
    /\ invoice' = ResetInvoice
    /\ reads' = {}
    /\ Fetch({})
    /\ loading' = FALSE
    /\ pc' = "idle"
    /\ request' = Null

\* mutant: no finally, the catch branch leaves loading as it is
CreateFailsKeepsLoading ==
    /\ pc = "awaiting"
    /\ last' = "createInvoice.catch"
    /\ argIndex' = Null
    /\ thrown' = NoError
    /\ Rerender(invoice)
    /\ alert' = AlertFailed
    /\ reads' = {}
    /\ Fetch({})
    /\ pc' = "idle"
    /\ request' = Null
    /\ UNCHANGED <<invoice, loading>>

\* the post rejects
CreateFails ==
    /\ pc = "awaiting"
    /\ last' = "createInvoice.catch"
    /\ argIndex' = Null
    /\ thrown' = NoError
    /\ Rerender(invoice)
    /\ alert' = AlertFailed
    /\ reads' = {}
    /\ Fetch({})
    /\ loading' = FALSE
    /\ pc' = "idle"
    /\ request' = Null
    /\ UNCHANGED invoice

\* the outcomes of a pending post
CreateResolves == CreateSucceeds \/ CreateReturnsNothing \/ CreateFails

ItemIndexes == 1..Len(invoice.items)

\* the positions of items and the two indexes next to them
AnyIndexes == 0..(Len(invoice.items) + 1)

\* what the rendered form offers
RemoveShown == Len(invoice.items) # 1
CustomerShown == invoice.payment_type = "Credit"
CreateShown == ~loading

\* ------------------------------------------------------------ Spec
\* The application as rendered: every input of the form, each offered as the
\* JSX offers it; while a post is pending the user waits for its outcome.

Texts == {<<"X">>}
QuantityTexts == {<<"2">>}
RateTexts == {<<"5", "0">>}
DiscountTexts == {<<"2", "0">>}
GSTTexts == {<<"1", "8">>}

Next ==
    \/ \E i \in ItemIndexes, v \in Texts : pc = "idle" /\ ChangeDescription(i, v)
    \/ \E i \in ItemIndexes, t \in QuantityTexts : pc = "idle" /\ ChangeQuantity(i, t)
    \/ \E i \in ItemIndexes, t \in RateTexts : pc = "idle" /\ ChangeRate(i, t)
    \/ \E t \in DiscountTexts : pc = "idle" /\ ChangeDiscount(t)
    \/ \E t \in GSTTexts : pc = "idle" /\ ChangeGST(t)
    \/ pc = "idle" /\ AddItem
    \/ \E i \in ItemIndexes : pc = "idle" /\ RemoveShown /\ RemoveItem(i)
    \/ \E type \in {"Cash", "Credit"} : pc = "idle" /\ ChangePaymentType(type)
    \/ \E v \in Texts : pc = "idle" /\ CustomerShown /\ ChangeCustomer("name", v)
    \/ \E v \in Texts : pc = "idle" /\ CustomerShown /\ ChangeDueDate(v)
    \/ \E v \in Texts : pc = "idle" /\ ChangeNotes(v)
    \/ \E v \in Texts : pc = "idle" /\ ChangeTerms(v)
    \/ CreateShown /\ CreateInvoice
    \/ CreateResolves

Spec == Init /\ [][Next]_vars

\* ------------------------------------------------------------ SpecTotals
\* The five mutators of the items, the discount and the tax rate, from the
\* initial draft, over numeric texts that parse, do not parse and are negative.

TotalsQuantityTexts == {<<"2">>, <<"-", "1">>}
TotalsRateTexts == {<<"5", "0">>, <<>>}
TotalsDiscountTexts == {<<"2", "0">>, <<"a", "b", "c">>, <<"-", "5">>, <<"2", "0", "0">>}
TotalsGSTTexts == {<<"1", "8">>, <<>>}

NextTotals ==
    \/ \E i \in ItemIndexes, v \in Texts : ChangeDescription(i, v)
    \/ \E i \in ItemIndexes, t \in TotalsQuantityTexts : ChangeQuantity(i, t)
    \/ \E i \in ItemIndexes, t \in TotalsRateTexts : ChangeRate(i, t)
    \/ \E t \in TotalsDiscountTexts : ChangeDiscount(t)
    \/ \E t \in TotalsGSTTexts : ChangeGST(t)
    \/ AddItem
    \/ \E i \in ItemIndexes : RemoveShown /\ RemoveItem(i)

SpecTotals == Init /\ [][NextTotals]_vars

\* ------------------------------------------------------------ SpecSubmit
\* The form as rendered, over the inputs that the validation of createInvoice
\* reads (descriptions and names that are blank, padded or plain; a customer
\* with or without a name) and some that it does not read; while a post is
\* pending the user waits for its outcome.

SubmitTexts == {<<"X">>, <<" ">>, <<" ", "X", " ">>}
CustomerFields == {"name", "mobile", "address"}
SubmitCustomerTexts(field) == IF field = "name" THEN SubmitTexts ELSE Texts

NextSubmit ==
    \/ \E i \in ItemIndexes, v \in SubmitTexts : pc = "idle" /\ ChangeDescription(i, v)
    \/ pc = "idle" /\ AddItem
    \/ \E i \in ItemIndexes : pc = "idle" /\ RemoveShown /\ RemoveItem(i)
    \/ \E type \in {"Cash", "Credit"} : pc = "idle" /\ ChangePaymentType(type)
    \/ \E f \in CustomerFields : \E v \in SubmitCustomerTexts(f) :
           pc = "idle" /\ CustomerShown /\ ChangeCustomer(f, v)
    \/ \E t \in DiscountTexts : pc = "idle" /\ ChangeDiscount(t)
    \/ \E v \in Texts : pc = "idle" /\ CustomerShown /\ ChangeDueDate(v)
    \/ \E v \in Texts : pc = "idle" /\ ChangeNotes(v)
    \/ CreateShown /\ CreateInvoice
    \/ CreateResolves

SpecSubmit == Init /\ [][NextSubmit]_vars

\* SpecSubmit when the post is answered: the promise of axios.post settles,
\* so that a createInvoice that awaits it goes on to its then or catch branch
\* and its finally.
SpecSubmitFair == SpecSubmit /\ WF_vars(CreateResolves)

\* ------------------------------------------------------------ SpecEngine
\* The handlers called directly, in any state and whatever the form shows:
\* removeItem on a single row, handleItemChange and removeItem with an index
\* that is no position, handleCustomerChange under Cash, and edits while a
\* post is pending.

EngineCustomerTexts(field) == IF field = "name" THEN {<<"X">>, <<"Y">>} ELSE Texts

NextEngine ==
    \/ \E i \in AnyIndexes, v \in Texts : HandleItemChange(i, "description", v)
    \/ AddItem
    \/ \E i \in AnyIndexes : RemoveItem(i)
    \/ \E type \in {"Cash", "Credit"} : ChangePaymentType(type)
    \/ \E f \in CustomerFields : \E v \in EngineCustomerTexts(f) : ChangeCustomer(f, v)
    \/ CreateInvoice
    \/ CreateResolves

SpecEngine == Init /\ [][NextEngine]_vars

\* ----------------------------------------------------------- SpecBatched
\* Handlers of one rendered snapshot called one after the other before React
\* renders again (React batches the setInvoice calls of one event).  Each
\* handler reads `invoice` from its closure, the snapshot, and hands
\* setInvoice an updater over prev, the draft the updater before it left.
\* newItems[index][field] = value assigns through the item object that the
\* snapshot and the state share, so the snapshot's row changes with it.

BatchedIndexes == 1..(IF Len(rendered.items) < Len(sequential.items)
                      THEN Len(rendered.items) ELSE Len(sequential.items))

BatchedItemChange(i, field, value) ==
    Batched("handleItemChange", Some(i),
            handleItemChange(rendered, invoice, i, field, value),
            [rendered EXCEPT !.items = ItemsWithField(@, i, field, value)],
            handleItemChange(sequential, sequential, i, field, value))

BatchedDiscountChange(text) ==
    Batched("handleDiscountChange", Null,
            handleDiscountChange(rendered, invoice, text),
            rendered,
            handleDiscountChange(sequential, sequential, text))

BatchedAddItem ==
    /\ Len(invoice.items) < MaxItems
    /\ Len(sequential.items) < MaxItems
    /\ Batched("addItem", Null, addItem(invoice), rendered, addItem(sequential))

BatchedRemoveItem(i) ==
    Batched("removeItem", Some(i),
            removeItem(rendered, invoice, i),
            rendered,
            removeItem(sequential, sequential, i))

\* React renders the draft the batch left
Render ==
    /\ rendered # invoice \/ sequential # invoice
    /\ Rerender(invoice)
    /\ UNCHANGED <<invoice, loading, pc, request, alert, reads, last,
                   argIndex, thrown, views, fetching>>

NextBatched ==
    \/ \E i \in BatchedIndexes, v \in Texts :
           BatchedItemChange(i, "description", v)
    \/ \E i \in BatchedIndexes, t \in RateTexts :
           BatchedItemChange(i, "rate", ParseFloatOrZero(t))
    \/ \E t \in DiscountTexts : BatchedDiscountChange(t)
    \/ BatchedAddItem
    \/ \E i \in BatchedIndexes : Len(rendered.items) > 1 /\ BatchedRemoveItem(i)
    \/ Render

SpecBatched == Init /\ [][NextBatched]_vars

\* ------------------------------------------------------------- SpecReads
\* The reads of the four views: the GETs of the mount and of the refresh
\* after a created invoice, each answered with some data or failing.  The
\* user creates an invoice when the reads before have been answered, so that
\* no endpoint has two GETs in flight.

\* response.data of a GET
Payloads == {"data1", "data2"}

ThenOf(e) ==
    CASE e = "company-profile" -> "fetchCompanyProfile.then"
      [] e = "invoices" -> "fetchInvoices.then"
      [] e = "customers" -> "fetchCustomers.then"
      [] e = "reports/summary" -> "fetchSummary.then"

CatchOf(e) ==
    CASE e = "company-profile" -> "fetchCompanyProfile.catch"
      [] e = "invoices" -> "fetchInvoices.catch"
      [] e = "customers" -> "fetchCustomers.catch"
      [] e = "reports/summary" -> "fetchSummary.catch"

\* what a fetch function does after its await, but for the view
Fetched(e, handler) ==
    /\ e \in fetching
    /\ fetching' = fetching \ {e}
    /\ last' = handler
    /\ argIndex' = Null
    /\ thrown' = NoError
    /\ alert' = NoAlert
    /\ reads' = {}
    /\ UNCHANGED <<invoice, loading, pc, request, rendered, sequential>>

\* the GET resolves: setX(response.data)
FetchSucceeds(e, data) ==
    /\ Fetched(e, ThenOf(e))
    /\ views' = [views EXCEPT ![e] = data]

\* mutant: the catch branch puts the view back to its initial value
FetchFailsResetsView(e) ==
    /\ Fetched(e, CatchOf(e))
    /\ views' = [views EXCEPT ![e] = InitialView]

\* the GET rejects: console.error and nothing else
FetchFails(e) ==
    /\ Fetched(e, CatchOf(e))
    /\ UNCHANGED views

NextReads ==
    \/ \E e \in ReadsOnMount, d \in Payloads : FetchSucceeds(e, d)
    \/ \E e \in ReadsOnMount : FetchFails(e)
    \/ \E i \in ItemIndexes, v \in Texts : pc = "idle" /\ ChangeDescription(i, v)
    \/ CreateShown /\ fetching = {} /\ CreateInvoice
    \/ CreateResolves

SpecReads == Init /\ [][NextReads]_vars

\* ------------------------------------------------------------ claims

RECURSIVE AmountSum(_)
AmountSum(items) ==
    IF items = <<>> THEN 0 ELSE Head(items).amount + AmountSum(Tail(items))

\* C1: after every call of the five mutators the stored subtotal is the sum
\* of the item amounts, gst_amount is (subtotal - discount) * gst_rate / 100
\* and total is (subtotal - discount) + gst_amount (both in hundredths).
C1_TotalsConsistent ==
    /\ invoice.subtotal = AmountSum(invoice.items)
    /\ invoice.gst_amount = (invoice.subtotal - invoice.discount) * invoice.gst_rate
    /\ invoice.total = (invoice.subtotal - invoice.discount) * 100 + invoice.gst_amount

\* two rows, one of quantity 2 at rate 50, discount 20 and tax 18: 100, 14.40,
\* 94.40, left by a removeItem
C1_Witness ==
    /\ last = "removeItem"
    /\ invoice.subtotal = 100
    /\ invoice.discount = 20
    /\ invoice.gst_rate = 18
    /\ invoice.gst_amount = 1440
    /\ invoice.total = 9440

\* C2: every line item's amount is its quantity times its rate, after any
\* mutator and after the reset that follows a successful submit.
C2_AmountIsQuantityTimesRate ==
    \A i \in 1..Len(invoice.items) :
        invoice.items[i].amount = invoice.items[i].quantity * invoice.items[i].rate

\* a row edited to quantity 2 at rate 50
C2_Witness ==
    /\ last = "handleItemChange"
    /\ \E i \in 1..Len(invoice.items) :
        /\ invoice.items[i].quantity = 2
        /\ invoice.items[i].rate = 50
        /\ invoice.items[i].amount = 100

\* C3: items is never empty, whatever removeItem, addItem, handleItemChange
\* and createInvoice (with its reset) are called with.
C3_ItemsNeverEmpty == Len(invoice.items) >= 1

\* removeItem has run and one row is left
C3_Witness == last = "removeItem" /\ Len(invoice.items) = 1

\* C4: no state has payment_type = Cash together with a customer, also after
\* handleCustomerChange is called while payment_type is Cash.
C4_CustomerOnlyWhenCredit ==
    invoice.payment_type = "Cash" => invoice.customer = Null

\* C5: handlePaymentTypeChange('Cash') leaves no customer whatever it was,
\* and handlePaymentTypeChange('Credit') leaves the customer as it was.
C5_PaymentTypeAndCustomer ==
    [][last' = "handlePaymentTypeChange" =>
          IF invoice'.payment_type = "Cash"
          THEN invoice'.customer = Null
          ELSE invoice'.customer = invoice.customer]_vars

\* Credit was chosen over a customer that has a name, and it is still there
C5_Witness ==
    /\ last = "handlePaymentTypeChange"
    /\ invoice.payment_type = "Credit"
    /\ invoice.customer # Null
    /\ "name" \in DOMAIN Val(invoice.customer)

\* a string with a character that is not white space
NonBlank(s) == \E k \in 1..Len(s) : s[k] # " "

HasNonBlankItem(inv) ==
    \E i \in 1..Len(inv.items) : NonBlank(inv.items[i].description)

HasNonBlankName(inv) ==
    /\ inv.customer # Null
    /\ "name" \in DOMAIN Val(inv.customer)
    /\ NonBlank(Val(inv.customer).name)

Validated(inv) ==
    /\ HasNonBlankItem(inv)
    /\ inv.payment_type = "Credit" => HasNonBlankName(inv)

\* C6: createInvoice stops on the item alert exactly when no item has a
\* description with a character other than white space.
C6_MissingLineItemDescription ==
    last = "createInvoice" => (alert = AlertItem <=> ~HasNonBlankItem(invoice))

\* stopped on two rows, one never described and one of white space only
C6_Witness ==
    /\ last = "createInvoice"
    /\ alert = AlertItem
    /\ Len(invoice.items) = 2
    /\ \E i \in 1..2 : invoice.items[i].description = <<" ">>

\* C7: with a described item, createInvoice stops on the customer alert
\* exactly when payment_type is Credit and the customer is absent or has no
\* name or a blank one; otherwise it posts the draft.
C7_MissingCustomerName ==
    (last = "createInvoice" /\ HasNonBlankItem(invoice)) =>
        /\ alert = AlertCustomer <=>
               (invoice.payment_type = "Credit" /\ ~HasNonBlankName(invoice))
        /\ alert # AlertCustomer =>
               (alert = NoAlert /\ pc = "awaiting" /\ request = Some(invoice))

\* stopped on a customer that has a mobile and a name of white space only
C7_Witness ==
    /\ last = "createInvoice"
    /\ alert = AlertCustomer
    /\ invoice.customer # Null
    /\ DOMAIN Val(invoice.customer) = {"name", "mobile"}
    /\ Val(invoice.customer).name = <<" ">>

\* C8: createInvoice on a draft that fails the validation posts nothing,
\* ends, and leaves the draft as it was.
C8_InvalidDraftNotPosted ==
    [][(last' = "createInvoice" /\ ~Validated(invoice)) =>
          (request' = Null /\ pc' = "idle" /\ loading' = FALSE /\ invoice' = invoice)]_vars

\* stopped on a Credit draft with a described item, a discount and no name
C8_Witness ==
    /\ last = "createInvoice"
    /\ alert = AlertCustomer
    /\ request = Null
    /\ pc = "idle"
    /\ invoice.discount = 20
    /\ HasNonBlankItem(invoice)

\* C9: the body of every post has an item with a non-blank description and,
\* under Credit, a customer with a non-blank name.
C9_PostedDraftValidated == request # Null => Validated(Val(request))

\* a Credit draft is being posted
C9_Witness ==
    /\ request # Null
    /\ pc = "awaiting"
    /\ Val(request).payment_type = "Credit"

\* C10: after a successful post the draft is the empty template.
C10_ResetAfterCreate ==
    (last = "createInvoice.then" /\ alert = AlertCreated) =>
        invoice = [payment_type |-> "Cash",
                   customer |-> Null,
                   items |-> <<[description |-> <<>>, quantity |-> 1,
                                rate |-> 0, amount |-> 0]>>,
                   subtotal |-> 0,
                   discount |-> 0,
                   gst_rate |-> 0,
                   gst_amount |-> 0,
                   total |-> 0,
                   notes |-> <<>>,
                   terms |-> <<>>,
                   due_date |-> Null]

\* the post has succeeded
C10_Witness ==
    /\ last = "createInvoice.then"
    /\ alert = AlertCreated
    /\ reads = ReadsAfterCreate
    /\ pc = "idle"

\* C11: when the post rejects, the step of the catch branch leaves every
\* field of the draft as it was, the draft is still the payload that was
\* posted, and the create button is enabled again, so that the same
\* submission can be retried.
C11_FailedPostKeepsDraft ==
    [][last' = "createInvoice.catch" =>
          /\ invoice' = invoice
          /\ request = Some(invoice')
          /\ alert' = AlertFailed
          /\ ~loading' /\ pc' = "idle"]_vars

C11_Witness ==
    /\ last = "createInvoice.catch"
    /\ alert = AlertFailed
    /\ HasNonBlankItem(invoice)
    /\ invoice.discount = 20
    /\ invoice.total = 9440

\* C12: two edit handlers called one after the other leave the draft that
\* applying the two edits in sequence leaves, also when both were created
\* from the same rendered snapshot, and the stored subtotal is still the sum
\* of the item amounts.
C12_BatchedEditsSequential ==
    /\ invoice = sequential
    /\ invoice.subtotal = AmountSum(invoice.items)

\* the numbers that the texts of ts that parse stand for
Parsed(ts) == {ParseFloat(t).val : t \in {u \in ts : ~ParseFloat(u).nan}}

\* C13: a discount or tax rate text that does not parse ("abc", "") leaves
\* the draft exactly as the text "0" leaves it: every handleDiscountChange
\* and handleGSTChange step whose text was not one of the numbers entered
\* gives the draft that the same handler gives for "0".
C13_LenientParse ==
    [][/\ (last' = "handleDiscountChange"
            /\ invoice'.discount \notin Parsed(TotalsDiscountTexts))
          => invoice' = handleDiscountChange(invoice, invoice, <<"0">>)
       /\ (last' = "handleGSTChange"
            /\ invoice'.gst_rate \notin Parsed(TotalsGSTTexts))
          => invoice' = handleGSTChange(invoice, invoice, <<"0">>)]_vars

\* "abc" was entered as the discount of a draft of subtotal 100 and tax 18
C13_Witness ==
    /\ last = "handleDiscountChange"
    /\ invoice.discount = 0
    /\ invoice.subtotal = 100
    /\ invoice.gst_rate = 18
    /\ invoice.total = 11800

\* C14: the discount of the draft is never negative, whatever text was
\* entered as the discount.
C14_DiscountNonNegative == invoice.discount >= 0

\* C15: the quantity and the rate of every row are never negative, whatever
\* texts were entered as quantities and rates.
C15_QuantityAndRateNonNegative ==
    \A i \in 1..Len(invoice.items) :
        invoice.items[i].quantity >= 0 /\ invoice.items[i].rate >= 0

\* C16 as stated: handleItemChange called with an index that is not a
\* position of items (negative, or items.length and above) raises no error.
C16_NoErrorOnInvalidIndex == last = "handleItemChange" => thrown = NoError

\* C16 amended: handleItemChange called with an index that is not a position
\* of items throws a TypeError before it calls setInvoice, so that the draft
\* is left unchanged; called with a position it throws nothing.
C16_InvalidIndexThrows ==
    [][last' = "handleItemChange" =>
          IF Val(argIndex') \in 1..Len(invoice.items)
          THEN thrown' = NoError
          ELSE thrown' = TypeError /\ invoice' = invoice]_vars

\* index items.length on a draft whose row is described
C16_Witness ==
    /\ last = "handleItemChange"
    /\ thrown = TypeError
    /\ argIndex = Some(Len(invoice.items) + 1)
    /\ HasNonBlankItem(invoice)

\* C17: removeItem called on a draft of exactly one row, with any index,
\* throws nothing and leaves every field of the draft as it was.
C17_RemoveOnlyItemIsNoOp ==
    [][last' = "removeItem" /\ Len(invoice.items) = 1 =>
          invoice' = invoice /\ thrown' = NoError]_vars

\* removeItem(0) has run and the draft has its one described row
C17_Witness ==
    /\ last = "removeItem"
    /\ argIndex = Some(1)
    /\ Len(invoice.items) = 1
    /\ HasNonBlankItem(invoice)
    /\ invoice.customer # Null

\* C18: removeItem called with a position of a draft of more than one row
\* removes that row and no other, keeps the other rows in their order, stores
\* the subtotal, gst_amount and total recomputed over the rows that remain,
\* and leaves the discount, the tax rate, the customer, the payment type and
\* the other fields as they were.
C18_RemoveItemRemovesOne ==
    [][(/\ last' = "removeItem"
        /\ Len(invoice.items) > 1
        /\ Val(argIndex') \in 1..Len(invoice.items)) =>
          LET i == Val(argIndex')
              rest == invoice'.items
          IN  /\ Len(rest) = Len(invoice.items) - 1
              /\ \A k \in 1..Len(rest) :
                     rest[k] = invoice.items[IF k < i THEN k ELSE k + 1]
              /\ invoice'.subtotal = AmountSum(rest)
              /\ invoice'.gst_amount =
                     (AmountSum(rest) - invoice.discount) * invoice.gst_rate
              /\ invoice'.total =
                     (AmountSum(rest) - invoice.discount) * (100 + invoice.gst_rate)
              /\ invoice' = [invoice EXCEPT !.items = rest,
                                            !.subtotal = invoice'.subtotal,
                                            !.gst_amount = invoice'.gst_amount,
                                            !.total = invoice'.total]]_vars

\* the first of two rows was removed from a Credit draft; the row of amount
\* 100 that was second remains
C18_Witness ==
    /\ last = "removeItem"
    /\ argIndex = Some(1)
    /\ Len(invoice.items) = 1
    /\ invoice.items[1].amount = 100
    /\ invoice.subtotal = 100
    /\ invoice.discount = 20
    /\ invoice.gst_rate = 18
    /\ invoice.total = 9440
    /\ invoice.payment_type = "Credit"
    /\ invoice.customer # Null

\* C19: addItem appends exactly one row {description "", quantity 1, rate 0,
\* amount 0} after the rows there are, and leaves those rows, their order and
\* every other field, the stored subtotal, gst_amount and total included, as
\* they were.
C19_AddItemAppendsBlankRow ==
    [][last' = "addItem" =>
          /\ thrown' = NoError
          /\ invoice' = [invoice EXCEPT !.items =
                 Append(@, [description |-> <<>>, quantity |-> 1,
                            rate |-> 0, amount |-> 0])]]_vars

\* a blank row was added after a row of amount 100
C19_Witness ==
    /\ last = "addItem"
    /\ Len(invoice.items) = 2
    /\ invoice.items[1].amount = 100
    /\ invoice.items[2].amount = 0
    /\ invoice.subtotal = 100
    /\ invoice.total = 9440

\* C20: handleCustomerChange throws nothing whatever the payment type; it
\* leaves a customer record that has the field given, with the value given,
\* and besides it exactly the fields the customer had before (none if there
\* was no customer) with their values; no other field of the draft changes.
C20_CustomerFieldSet ==
    [][last' = "handleCustomerChange" =>
          /\ thrown' = NoError
          /\ invoice'.customer # Null
          /\ invoice' = [invoice EXCEPT !.customer = invoice'.customer]
          /\ LET old == IF invoice.customer = Null THEN <<>> ELSE Val(invoice.customer)
                 new == Val(invoice'.customer)
             IN  \E f \in CustomerFields : \E v \in EngineCustomerTexts(f) :
                    /\ DOMAIN new = (DOMAIN old) \cup {f}
                    /\ new[f] = v
                    /\ \A g \in (DOMAIN old) \ {f} : new[g] = old[g]]_vars

\* under Cash, a customer of name "X" was given a second field, then its name
\* was changed to "Y"
C20_Witness ==
    /\ last = "handleCustomerChange"
    /\ invoice.payment_type = "Cash"
    /\ invoice.customer # Null
    /\ DOMAIN Val(invoice.customer) = {"name", "mobile"}
    /\ Val(invoice.customer)["name"] = <<"Y">>
    /\ Val(invoice.customer)["mobile"] = <<"X">>

\* C21: handleDiscountChange changes the discount, gst_amount and total and
\* nothing else, handleGSTChange changes gst_rate, gst_amount and total and
\* nothing else: the subtotal, the items, the customer, the payment type,
\* notes, terms and due date stay, and so does the tax rate under a new
\* discount and the discount under a new tax rate.
C21_DiscountAndGSTFrame ==
    [][/\ last' = "handleDiscountChange" =>
             invoice' = [invoice EXCEPT !.discount = invoice'.discount,
                                        !.gst_amount = invoice'.gst_amount,
                                        !.total = invoice'.total]
       /\ last' = "handleGSTChange" =>
             invoice' = [invoice EXCEPT !.gst_rate = invoice'.gst_rate,
                                        !.gst_amount = invoice'.gst_amount,
                                        !.total = invoice'.total]]_vars

\* a tax rate of 18 entered on a Credit draft of subtotal 100, discount 20,
\* with a customer, notes and a due date
C21_Witness ==
    /\ last = "handleGSTChange"
    /\ invoice.gst_rate = 18
    /\ invoice.discount = 20
    /\ invoice.subtotal = 100
    /\ invoice.customer # Null
    /\ invoice.notes # <<>>
    /\ invoice.due_date # Null

\* C22: for the rows of every draft and every discount and tax rate entered,
\* calculateTotals returns the sum of the amounts as subtotal, (subtotal -
\* discount) * gstRate / 100 as gstAmount and (subtotal - discount) +
\* gstAmount as total, without clamping: a discount above the subtotal gives
\* a negative total and, under a tax rate, a negative gstAmount.  A subtotal
\* of 100 under 18 gives 100 / 18.00 / 118.00 at discount 0 and 100 / 14.40 /
\* 94.40 at discount 20 (gstAmount and total in hundredths).
C22_CalculateTotals ==
    \A d \in Parsed(TotalsDiscountTexts) \cup {0} :
        \A g \in Parsed(TotalsGSTTexts) \cup {0} :
            LET t == calculateTotals(invoice.items, d, g)
                sum == AmountSum(invoice.items)
            IN  /\ t.subtotal = sum
                /\ t.gstAmount = (sum - d) * g
                /\ t.total = (sum - d) * 100 + (sum - d) * g
                /\ d > sum => t.total < 0 /\ (g > 0 => t.gstAmount < 0)
                /\ (sum = 100 /\ g = 18 /\ d = 0) =>
                       t = [subtotal |-> 100, gstAmount |-> 1800, total |-> 11800]
                /\ (sum = 100 /\ g = 18 /\ d = 20) =>
                       t = [subtotal |-> 100, gstAmount |-> 1440, total |-> 9440]

\* one row of quantity 2 at rate 50 under 18, and 200 entered as the discount:
\* the handler stored what calculateTotals gave, -18.00 and -118.00
C22_Witness ==
    /\ last = "handleDiscountChange"
    /\ Len(invoice.items) = 1
    /\ invoice.items[1].quantity = 2
    /\ invoice.items[1].rate = 50
    /\ invoice.discount = 200
    /\ invoice.gst_rate = 18
    /\ invoice.subtotal = 100
    /\ invoice.gst_amount = 0 - 1800
    /\ invoice.total = 0 - 11800

\* C23 as stated: after a read has failed its view is at the initial value,
\* the empty list or object, also when an earlier read of it had succeeded.
C23_FailedReadLeavesDefault ==
    \A e \in ReadsOnMount : last = CatchOf(e) => views[e] = InitialView

\* C23 amended: a read that fails shows no alert, throws nothing and leaves
\* every view, the draft and the loading flag as they were: the view keeps
\* its initial value if no read of it has succeeded, and the data of the
\* last read that succeeded otherwise.
C23_FailedReadKeepsView ==
    [][\A e \in ReadsOnMount :
          last' = CatchOf(e) =>
             /\ views' = views
             /\ alert' = NoAlert
             /\ thrown' = NoError
             /\ invoice' = invoice
             /\ loading' = loading]_vars

\* the refresh of the invoice list after a created invoice has failed, and
\* the list holds the data read on mount
C23_Witness ==
    /\ last = "fetchInvoices.catch"
    /\ views["invoices"] = "data1"
    /\ views["customers"] = InitialView

\* C24 as stated: after a created invoice a read is issued to each of the
\* four endpoints, the company profile included.
C24_RefreshReadsAllFour ==
    (last = "createInvoice.then" /\ alert = AlertCreated) =>
        reads = {"company-profile", "invoices", "customers", "reports/summary"}

\* C24 amended: after a created invoice a read is issued to the invoice list,
\* the customer list and the summary, and none to the company profile, which
\* is read on mount only; a createInvoice that stops at a validation or
\* starts the post, and a post that fails, issue no read.
C24_RefreshReadsThree ==
    [][/\ (last' = "createInvoice.then" /\ alert' = AlertCreated) =>
             /\ reads' = {"invoices", "customers", "reports/summary"}
             /\ fetching' = fetching \cup reads'
       /\ last' \in {"createInvoice", "createInvoice.catch"} =>
             /\ reads' = {}
             /\ fetching' = fetching]_vars

\* the three GETs of the refresh are in flight and the company profile holds
\* what was read on mount
C24_Witness ==
    /\ last = "createInvoice.then"
    /\ alert = AlertCreated
    /\ fetching = {"invoices", "customers", "reports/summary"}
    /\ views["company-profile"] = "data1"

\* C25: the validations are ordered: createInvoice on a draft that has no
\* item with a non-blank description and is Credit without a non-blank
\* customer name shows the item alert only, and the customer alert is shown
\* only on a draft that has an item with a non-blank description.
C25_ValidationOrder ==
    last = "createInvoice" =>
        /\ (/\ ~HasNonBlankItem(invoice)
            /\ invoice.payment_type = "Credit"
            /\ ~HasNonBlankName(invoice)) => alert = AlertItem
        /\ alert = AlertCustomer => HasNonBlankItem(invoice)

\* stopped on a Credit draft with a blank row and a customer of blank name
C25_Witness ==
    /\ last = "createInvoice"
    /\ alert = AlertItem
    /\ invoice.payment_type = "Credit"
    /\ invoice.customer # Null
    /\ ~HasNonBlankName(invoice)
    /\ ~HasNonBlankItem(invoice)

\* C26: loading is true exactly while createInvoice awaits the post: it is
\* false again when createInvoice returns on a validation, when the post
\* fails and when it succeeds, and, the post being answered, every state
\* with loading true is followed by one with loading false.
C26_LoadingCleared ==
    /\ [](loading <=> pc = "awaiting")
    /\ loading ~> ~loading

\* createInvoice has returned on the item validation with loading false
C26_Witness ==
    /\ last = "createInvoice"
    /\ alert = AlertItem
    /\ loading = FALSE
    /\ pc = "idle"
    /\ invoice.payment_type = "Cash"

\* C27: a post that resolves either announces the invoice, resets the draft
\* and issues the refresh reads (response.data truthy), or, response.data
\* being falsy, leaves the draft as it was, issues no read and shows no
\* alert, the failure alert included; loading is false after both.
C27_FalsyPayloadKeepsDraft ==
    [][last' = "createInvoice.then" =>
          /\ \/ /\ alert' = AlertCreated
                /\ invoice' = ResetInvoice
                /\ reads' = ReadsAfterCreate
             \/ /\ alert' = NoAlert
                /\ invoice' = invoice
                /\ reads' = {}
                /\ fetching' = fetching
          /\ thrown' = NoError
          /\ ~loading']_vars

\* the post of a described draft with a discount resolved without data
C27_Witness ==
    /\ last = "createInvoice.then"
    /\ alert = NoAlert
    /\ reads = {}
    /\ HasNonBlankItem(invoice)
    /\ invoice.discount = 20
    /\ ~loading

\* C28: the body of the post is the draft as it was when createInvoice was
\* called, whatever edits are made while the post is pending; a post that
\* succeeds leaves the template, so that those edits are gone, and a post
\* that fails leaves the draft with those edits.
C28_EditsWhilePending ==
    [][/\ (last' = "createInvoice" /\ pc' = "awaiting") => request' = Some(invoice)
       /\ (pc = "awaiting" /\ pc' = "awaiting") => request' = request
       /\ (last' = "createInvoice.then" /\ alert' = AlertCreated) =>
             invoice' = ResetInvoice
       /\ last' = "createInvoice.catch" => invoice' = invoice]_vars

\* the post has failed and the draft is one that createInvoice would not
\* have posted: it was edited while the post was pending
C28_Witness ==
    /\ last = "createInvoice.catch"
    /\ alert = AlertFailed
    /\ ~Validated(invoice)

\* C29: handlePaymentTypeChange changes payment_type and customer and
\* nothing else: the items, subtotal, discount, gst_rate, gst_amount, total,
\* notes, terms and due_date stay, so that a due date entered under Credit
\* is still in the draft after the switch to Cash.
C29_PaymentTypeFrame ==
    [][last' = "handlePaymentTypeChange" =>
          invoice' = [invoice EXCEPT !.payment_type = invoice'.payment_type,
                                     !.customer = invoice'.customer]]_vars

\* switched to Cash with the due date entered under Credit
C29_Witness ==
    /\ last = "handlePaymentTypeChange"
    /\ invoice.payment_type = "Cash"
    /\ invoice.customer = Null
    /\ invoice.due_date # Null
    /\ invoice.total = 9440

====
